---- MODULE Spec2Model ----
(***************************************************************************)
(* ChitLedger backend: the ledger store (Chit, Membership, ExternalMember, *)
(* ChitSchedule, Payment rows), the request handlers of core/views.py that *)
(* mutate it, and the settlement functions of core/utils.py.               *)
(*                                                                         *)
(* Every table is a set of rows (records).  Primary keys come from         *)
(* per-table AutoField counters and are never reused.  A nullable foreign  *)
(* key holds NULL (0) when unset; real keys start at 1.  Money is an       *)
(* integer number of hundredths (DecimalField, decimal_places = 2).        *)
(***************************************************************************)
EXTENDS Integers, Sequences, FiniteSets, TLC

\* ------------------------------------------------------------------ bounds
MaxExternals == 2    \* external members ever created
MaxMemberships == 2  \* memberships ever created
MaxSlots == 2        \* largest slot_count / total_slots a request carries
MaxWorkers == 2      \* add-external-member requests in flight at once
MaxPayments == 3     \* payment rows recorded through POST /payments/

\* an unset nullable foreign key; primary keys start at 1
NULL == 0
\* a field that a partial (PUT / PATCH) request leaves out
ABSENT == -1

\* the users issuing requests: an organizer and somebody else
Users == {1, 2}
Workers == 1..MaxWorkers
\* slot_count / total_slots values of requests (the fields also accept 0)
SlotCounts == 1..MaxSlots
\* request values for total_amount / lift_amount / no_lift_amount (hundredths)
TotalAmounts == {1000}
LiftAmounts == {100}
NoLiftAmounts == {300}
MemberTypes == {"verified", "external", "other"}

VARIABLES
    chits,        \* Chit rows
    memberships,  \* Membership rows
    externals,    \* ExternalMember rows
    schedules,    \* ChitSchedule rows
    payments,     \* Payment rows
    seq,          \* next AutoField value of every table
    workers,      \* add-external-member requests between their read and their insert
    accounts,     \* User rows
    response      \* the answer to the last finished request or call

vars == <<chits, memberships, externals, schedules, payments, seq, workers,
          accounts, response>>

\* ----------------------------------------------------------------- helpers
RECURSIVE SumOver(_, _)
\* Python's sum(f(x) for x in rows) / SQL SUM over a set of rows
SumOver(rows, field) ==
    IF rows = {} THEN 0
    ELSE LET r == CHOOSE x \in rows : TRUE
         IN r[field] + SumOver(rows \ {r}, field)

RECURSIVE SumSeq(_)
SumSeq(s) == IF s = <<>> THEN 0 ELSE Head(s) + SumSeq(Tail(s))

ChitById(id) == CHOOSE c \in chits : c.chit_id = id
ChitIds == {c.chit_id : c \in chits}

\* get_object_or_404(Chit, pk=pk, organizer=user)
OwnedChit(pk, user) == \E c \in chits : c.chit_id = pk /\ c.organizer = user

MembershipsOf(chit_id) == {m \in memberships : m.chit = chit_id}
ExternalsOf(chit_id) == {e \in externals : e.chit = chit_id}
SchedulesOf(chit_id) == {s \in schedules : s.chit = chit_id}

\* Decimal division quantized to two places on save (ROUND_HALF_EVEN), d > 0
RoundHalfEvenDiv(n, d) ==
    LET a == IF n < 0 THEN -n ELSE n
        q == a \div d
        r == a % d
        up == IF 2 * r > d THEN q + 1
              ELSE IF 2 * r < d THEN q
              ELSE IF q % 2 = 0 THEN q ELSE q + 1
    IN IF n < 0 THEN -up ELSE up

\* default_no_lift of ChitCreateSerializer.create
DefaultNoLift(total_amount, lift_amount, total_slots) ==
    IF total_slots > 1
    THEN RoundHalfEvenDiv(total_amount - lift_amount, total_slots - 1)
    ELSE 0

\* ---------------------------------------------------------------- accounts
\* The users of Users are registered when the ledger starts empty: user u has
\* phone number u.  A stored password is the hash of the raw one.
make_password(raw) == <<"hash", raw>>
check_password(raw, encoded) == encoded = make_password(raw)

\* ------------------------------------------------------------------- Init
Init ==
    /\ chits = {}
    /\ memberships = {}
    /\ externals = {}
    /\ schedules = {}
    /\ payments = {}
    /\ seq = [chit |-> 1, membership |-> 1, external |-> 1, schedule |-> 1, payment |-> 1]
    /\ workers = [w \in Workers |-> [pc |-> "idle"]]
    /\ accounts = {[user_id |-> u, phone_number |-> u, password |-> make_password("first")]
                      : u \in Users}
    /\ response = [op |-> "none", status |-> 0]

\* ----------------------------------------------------------- chit handlers
\* ChitCreateSerializer.validate
ChitCreateValid(total_slots, ext) == SumSeq(ext) <= total_slots

\* POST /chits/ : ext is the list of slot_counts of external_members_data
ChitCreate(user, total_slots, total_amount, lift_amount, duration_months, ext) ==
    IF ~ChitCreateValid(total_slots, ext)
    THEN /\ response' = [op |-> "chit_create", status |-> 400]
         /\ UNCHANGED <<chits, memberships, externals, schedules, payments, seq, workers, accounts>>
    ELSE /\ seq.external + Len(ext) - 1 <= MaxExternals
         /\ LET id == seq.chit
                no_lift == DefaultNoLift(total_amount, lift_amount, total_slots)
            IN /\ chits' = chits \cup
                     {[chit_id |-> id, organizer |-> user, total_slots |-> total_slots,
                       total_amount |-> total_amount, lift_amount |-> lift_amount,
                       duration_months |-> duration_months]}
               /\ externals' = externals \cup
                     {[member_id |-> seq.external + i - 1, chit |-> id,
                       slot_count |-> ext[i]] : i \in 1..Len(ext)}
               /\ schedules' = schedules \cup
                     {[id |-> seq.schedule + month - 1, chit |-> id,
                       month_number |-> month, lift_amount |-> lift_amount,
                       no_lift_amount |-> no_lift,
                       lifted_by_membership |-> NULL, lifted_by_external |-> NULL]
                        : month \in 1..duration_months}
               /\ seq' = [seq EXCEPT !.chit = id + 1,
                                     !.external = @ + Len(ext),
                                     !.schedule = @ + duration_months]
               /\ response' = [op |-> "chit_create", status |-> 201, chit |-> id]
         /\ UNCHANGED <<memberships, payments, workers, accounts>>

\* the rows POST /chits/ has written when its insert number fail_at raises:
\* the Chit first, then the ExternalMembers in list order, then the
\* schedules month by month
ChitCreateWritten(user, total_slots, total_amount, lift_amount, duration_months, ext, fail_at) ==
    LET id == seq.chit
        done == fail_at - 1
        no_lift == DefaultNoLift(total_amount, lift_amount, total_slots)
    IN [chits |-> IF done >= 1
                  THEN chits \cup
                       {[chit_id |-> id, organizer |-> user, total_slots |-> total_slots,
                         total_amount |-> total_amount, lift_amount |-> lift_amount,
                         duration_months |-> duration_months]}
                  ELSE chits,
        externals |-> externals \cup
                      {[member_id |-> seq.external + i - 1, chit |-> id,
                        slot_count |-> ext[i]]
                         : i \in {j \in 1..Len(ext) : j <= done - 1}},
        schedules |-> schedules \cup
                      {[id |-> seq.schedule + month - 1, chit |-> id,
                        month_number |-> month, lift_amount |-> lift_amount,
                        no_lift_amount |-> no_lift,
                        lifted_by_membership |-> NULL, lifted_by_external |-> NULL]
                         : month \in 1..(done - 1 - Len(ext))}]

\* a transaction that keeps what was written before the exception
transaction_atomic_NoRollback(before, written) == written

\* @transaction.atomic on a handler that an exception leaves: the rows are
\* those of the moment the handler was entered
transaction_atomic(before, written) == before

\* POST /chits/ when the insert number fail_at raises (the database refuses
\* it): the exception leaves the handler through transaction.atomic and the
\* request ends as a server error.  burn: the database does not give back the
\* primary keys the rolled-back rows took.
ChitCreateRaises(user, total_slots, total_amount, lift_amount, duration_months, ext, fail_at, burn) ==
    /\ ChitCreateValid(total_slots, ext)
    /\ seq.external + Len(ext) - 1 <= MaxExternals
    /\ fail_at \in 1..(1 + Len(ext) + duration_months)
    /\ LET before == [chits |-> chits, externals |-> externals, schedules |-> schedules]
           written == ChitCreateWritten(user, total_slots, total_amount, lift_amount,
                                        duration_months, ext, fail_at)
           after == transaction_atomic(before, written)
       IN /\ chits' = after.chits
          /\ externals' = after.externals
          /\ schedules' = after.schedules
          /\ seq' = IF burn
                    THEN [seq EXCEPT
                            !.chit = @ + Cardinality(written.chits \ chits),
                            !.external = @ + Cardinality(written.externals \ externals),
                            !.schedule = @ + Cardinality(written.schedules \ schedules)]
                    ELSE seq
    /\ response' = [op |-> "chit_create", status |-> 500, fail_at |-> fail_at]
    /\ UNCHANGED <<memberships, payments, workers, accounts>>

\* PUT /chits/{id}/ (ChitCreateSerializer, partial): validate() reads
\* data['total_slots'] unconditionally, and ModelSerializer.update refuses a
\* nested external_members_data list; neither looks at the chit's members.
ChitUpdate(user, pk, total_slots, total_amount, lift_amount, duration_months, has_ext, ext) ==
    /\ UNCHANGED <<memberships, externals, schedules, payments, seq, workers, accounts>>
    /\ IF ~OwnedChit(pk, user)
       THEN /\ response' = [op |-> "chit_update", status |-> 404]
            /\ UNCHANGED chits
       ELSE IF total_slots = ABSENT
       THEN /\ response' = [op |-> "chit_update", status |-> 500]
            /\ UNCHANGED chits
       ELSE IF has_ext /\ ~ChitCreateValid(total_slots, ext)
       THEN /\ response' = [op |-> "chit_update", status |-> 400]
            /\ UNCHANGED chits
       ELSE IF has_ext
       THEN /\ response' = [op |-> "chit_update", status |-> 500]
            /\ UNCHANGED chits
       ELSE LET c == ChitById(pk)
                put(old, new) == IF new = ABSENT THEN old ELSE new
            IN /\ chits' = (chits \ {c}) \cup
                     {[c EXCEPT !.total_slots = total_slots,
                                !.total_amount = put(@, total_amount),
                                !.lift_amount = put(@, lift_amount),
                                !.duration_months = put(@, duration_months)]}
               /\ response' = [op |-> "chit_update", status |-> 200, chit |-> pk]

\* the cascade that leaves the lifter references of other chits' schedules alone
Cascade_KeepsLifterReferences(gone_chits) ==
    LET gone_m == {m \in memberships : m.chit \in gone_chits}
        gone_e == {e \in externals : e.chit \in gone_chits}
        gone_s == {s \in schedules : s.chit \in gone_chits}
    IN [memberships |-> memberships \ gone_m,
        externals |-> externals \ gone_e,
        schedules |-> schedules \ gone_s,
        payments |-> {q \in payments :
                        /\ ~\E s \in gone_s : s.id = q.chit_schedule
                        /\ ~\E m \in gone_m : m.membership_id = q.membership
                        /\ ~\E e \in gone_e : e.member_id = q.external_member}]

\* Model.delete() on the chits gone_chits: on_delete=CASCADE removes their
\* Memberships, ExternalMembers and ChitSchedules and every Payment that
\* references one of those; on_delete=SET_NULL clears a surviving schedule's
\* reference to a removed member
Cascade(gone_chits) ==
    LET gone_m == {m \in memberships : m.chit \in gone_chits}
        gone_e == {e \in externals : e.chit \in gone_chits}
        gone_s == {s \in schedules : s.chit \in gone_chits}
    IN [memberships |-> memberships \ gone_m,
        externals |-> externals \ gone_e,
        schedules |->
            {[s EXCEPT
                !.lifted_by_membership =
                    IF \E m \in gone_m : m.membership_id = @ THEN NULL ELSE @,
                !.lifted_by_external =
                    IF \E e \in gone_e : e.member_id = @ THEN NULL ELSE @]
               : s \in schedules \ gone_s},
        payments |-> {q \in payments :
                        /\ ~\E s \in gone_s : s.id = q.chit_schedule
                        /\ ~\E m \in gone_m : m.membership_id = q.membership
                        /\ ~\E e \in gone_e : e.member_id = q.external_member}]

\* DELETE /chits/{id}/
ChitDelete(user, pk) ==
    /\ UNCHANGED <<seq, workers, accounts>>
    /\ IF ~OwnedChit(pk, user)
       THEN /\ response' = [op |-> "chit_delete", status |-> 404]
            /\ UNCHANGED <<chits, memberships, externals, schedules, payments>>
       ELSE LET after == Cascade({pk})
            IN /\ chits' = chits \ {ChitById(pk)}
               /\ memberships' = after.memberships
               /\ externals' = after.externals
               /\ schedules' = after.schedules
               /\ payments' = after.payments
               /\ response' = [op |-> "chit_delete", status |-> 204, chit |-> pk]

\* -------------------------------------------------------- member handlers
\* current_slots of ChitAddExternalMemberView.post
CurrentSlots(chit_id) ==
    SumOver(MembershipsOf(chit_id), "slot_count")
        + SumOver(ExternalsOf(chit_id), "slot_count")

\* the capacity test with the requested slots left out
NotEnoughSlots_IgnoreRequested(current_slots, requested_slots, total_slots) ==
    current_slots > total_slots

\* the capacity test of ChitAddExternalMemberView.post
NotEnoughSlots(current_slots, requested_slots, total_slots) ==
    current_slots + requested_slots > total_slots

\* POST /chits/{id}/add-external-member/ handled with no other request in between
AddExternalMember(user, pk, slot_count) ==
    /\ UNCHANGED <<chits, memberships, schedules, payments, workers, accounts>>
    /\ IF ~OwnedChit(pk, user)
       THEN /\ response' = [op |-> "add_external", status |-> 404]
            /\ UNCHANGED <<externals, seq>>
       ELSE IF NotEnoughSlots(CurrentSlots(pk), slot_count, ChitById(pk).total_slots)
       THEN /\ response' = [op |-> "add_external", status |-> 400,
                            chit |-> pk, slot_count |-> slot_count]
            /\ UNCHANGED <<externals, seq>>
       ELSE /\ seq.external <= MaxExternals
            /\ externals' = externals \cup
                  {[member_id |-> seq.external, chit |-> pk, slot_count |-> slot_count]}
            /\ seq' = [seq EXCEPT !.external = @ + 1]
            /\ response' = [op |-> "add_external", status |-> 201,
                            chit |-> pk, slot_count |-> slot_count]

\* The same handler as a worker runs it beside other workers; the store is
\* touched twice, with no transaction and no lock around the two:
\* first the chit is loaded and current_slots is read ...
AddExternalRead(w, user, pk, slot_count) ==
    /\ workers[w].pc # "read"
    /\ UNCHANGED <<chits, memberships, externals, schedules, payments, seq, accounts>>
    /\ IF ~OwnedChit(pk, user)
       THEN /\ response' = [op |-> "add_external", status |-> 404]
            /\ workers' = [workers EXCEPT ![w] = [pc |-> "idle"]]
       ELSE /\ workers' = [workers EXCEPT ![w] =
                  [pc |-> "read", chit |-> pk, slot_count |-> slot_count,
                   current_slots |-> CurrentSlots(pk),
                   total_slots |-> ChitById(pk).total_slots]]
            /\ UNCHANGED response

\* ... then the capacity test is made on what was read and the row is inserted
AddExternalInsert(w) ==
    /\ workers[w].pc = "read"
    /\ UNCHANGED <<chits, memberships, schedules, payments, accounts>>
    /\ LET r == workers[w]
       IN IF NotEnoughSlots(r.current_slots, r.slot_count, r.total_slots)
          THEN /\ response' = [op |-> "add_external", status |-> 400,
                               chit |-> r.chit, slot_count |-> r.slot_count]
               /\ workers' = [workers EXCEPT ![w] =
                     [pc |-> "done", chit |-> r.chit, status |-> 400]]
               /\ UNCHANGED <<externals, seq>>
          ELSE /\ seq.external <= MaxExternals
               /\ externals' = externals \cup
                     {[member_id |-> seq.external, chit |-> r.chit,
                       slot_count |-> r.slot_count]}
               /\ seq' = [seq EXCEPT !.external = @ + 1]
               /\ response' = [op |-> "add_external", status |-> 201,
                               chit |-> r.chit, slot_count |-> r.slot_count]
               /\ workers' = [workers EXCEPT ![w] =
                     [pc |-> "done", chit |-> r.chit, status |-> 201]]

\* A verified user joins a chit.  No handler creates Membership rows; the
\* row obeys unique_together (chit, user) and the capacity rule for new members.
AddVerifiedMember(pk, member_user, slot_count) ==
    /\ pk \in ChitIds
    /\ seq.membership <= MaxMemberships
    /\ ~\E m \in memberships : m.chit = pk /\ m.user = member_user
    /\ CurrentSlots(pk) + slot_count <= ChitById(pk).total_slots
    /\ memberships' = memberships \cup
          {[membership_id |-> seq.membership, chit |-> pk, user |-> member_user,
            slot_count |-> slot_count]}
    /\ seq' = [seq EXCEPT !.membership = @ + 1]
    /\ response' = [op |-> "add_verified", status |-> 201]
    /\ UNCHANGED <<chits, externals, schedules, payments, workers, accounts>>

\* get_object_or_404(ExternalMember, pk=pk, chit__organizer=user)
OwnedExternal(pk, user) ==
    \E e \in externals : e.member_id = pk /\ OwnedChit(e.chit, user)

ExternalById(id) == CHOOSE e \in externals : e.member_id = id

\* PUT /external-members/{id}/ (ExternalMemberSerializer, partial): chit and
\* slot_count are both writable and are saved as given.
ExternalMemberUpdate(user, pk, chit, slot_count) ==
    /\ UNCHANGED <<chits, memberships, schedules, payments, seq, workers, accounts>>
    /\ IF ~OwnedExternal(pk, user)
       THEN /\ response' = [op |-> "external_update", status |-> 404]
            /\ UNCHANGED externals
       ELSE IF chit # ABSENT /\ chit \notin ChitIds
       THEN /\ response' = [op |-> "external_update", status |-> 400]
            /\ UNCHANGED externals
       ELSE LET e == ExternalById(pk)
            IN /\ externals' = (externals \ {e}) \cup
                     {[e EXCEPT !.chit = IF chit = ABSENT THEN @ ELSE chit,
                                !.slot_count = IF slot_count = ABSENT THEN @
                                               ELSE slot_count]}
               /\ response' = [op |-> "external_update", status |-> 200]

\* DELETE /external-members/{id}/ ; lifted_by_external is SET_NULL
ExternalMemberDelete(user, pk) ==
    /\ UNCHANGED <<chits, memberships, seq, workers, accounts>>
    /\ IF ~OwnedExternal(pk, user)
       THEN /\ response' = [op |-> "external_delete", status |-> 404]
            /\ UNCHANGED <<externals, schedules, payments>>
       ELSE IF \E p \in payments : p.external_member = pk
       THEN /\ response' = [op |-> "external_delete", status |-> 400]
            /\ UNCHANGED <<externals, schedules, payments>>
       ELSE /\ externals' = externals \ {ExternalById(pk)}
            /\ schedules' =
                  {IF s.lifted_by_external = pk
                   THEN [s EXCEPT !.lifted_by_external = NULL] ELSE s : s \in schedules}
            /\ payments' = {p \in payments : p.external_member # pk}
            /\ response' = [op |-> "external_delete", status |-> 204]

\* get_available_slots counting the verified members only
get_available_slots_VerifiedOnly(chit_id) ==
    LET used_slots == SumOver(MembershipsOf(chit_id), "slot_count")
    IN <<used_slots, ChitById(chit_id).total_slots - used_slots>>

\* get_available_slots(chit)
get_available_slots(chit_id) ==
    LET verified_slots == SumOver(MembershipsOf(chit_id), "slot_count")
        external_slots == SumOver(ExternalsOf(chit_id), "slot_count")
        used_slots == verified_slots + external_slots
        available_slots == ChitById(chit_id).total_slots - used_slots
    IN <<used_slots, available_slots>>

\* a call of get_available_slots on an existing chit
GetAvailableSlots(chit_id) ==
    /\ chit_id \in ChitIds
    /\ response' = [op |-> "available_slots", status |-> 200, chit |-> chit_id,
                    used_slots |-> get_available_slots(chit_id)[1],
                    available_slots |-> get_available_slots(chit_id)[2]]
    /\ UNCHANGED <<chits, memberships, externals, schedules, payments, seq, workers, accounts>>

\* ------------------------------------------------------ schedule handlers
\* get_object_or_404(ChitSchedule, pk=pk, chit__organizer=user)
OwnedSchedule(pk, user) ==
    \E s \in schedules : s.id = pk /\ OwnedChit(s.chit, user)

ScheduleById(pk) == CHOOSE s \in schedules : s.id = pk

\* the handler discarding the month's payments when the lifter changes
AssignLifter_DropsPayments(user, pk, member_type, member_id) ==
    /\ UNCHANGED <<chits, memberships, externals, seq, workers, accounts>>
    /\ IF ~OwnedSchedule(pk, user)
       THEN /\ response' = [op |-> "assign_lifter", status |-> 404]
            /\ UNCHANGED <<schedules, payments>>
       ELSE LET s == ScheduleById(pk)
                found == IF member_type = "verified"
                         THEN \E m \in memberships : m.membership_id = member_id /\ m.chit = s.chit
                         ELSE \E e \in externals : e.member_id = member_id /\ e.chit = s.chit
            IN IF member_type \notin {"verified", "external"}
               THEN /\ response' = [op |-> "assign_lifter", status |-> 400]
                    /\ UNCHANGED <<schedules, payments>>
               ELSE IF ~found
               THEN /\ response' = [op |-> "assign_lifter", status |-> 404]
                    /\ UNCHANGED <<schedules, payments>>
               ELSE /\ schedules' = (schedules \ {s}) \cup
                          {IF member_type = "verified"
                           THEN [s EXCEPT !.lifted_by_membership = member_id,
                                          !.lifted_by_external = NULL]
                           ELSE [s EXCEPT !.lifted_by_external = member_id,
                                          !.lifted_by_membership = NULL]}
                    /\ payments' = {q \in payments : q.chit_schedule # pk}
                    /\ response' = [op |-> "assign_lifter", status |-> 200]

\* POST /schedules/{id}/assign-lifter/ : the member must belong to the
\* schedule's chit; the other lifter reference is cleared.  There is no
\* eligibility test.
AssignLifter(user, pk, member_type, member_id) ==
    /\ UNCHANGED <<chits, memberships, externals, payments, seq, workers, accounts>>
    /\ IF ~OwnedSchedule(pk, user)
       THEN /\ response' = [op |-> "assign_lifter", status |-> 404]
            /\ UNCHANGED schedules
       ELSE LET s == ScheduleById(pk)
            IN IF member_type = "verified"
               THEN IF \E m \in memberships : m.membership_id = member_id /\ m.chit = s.chit
                    THEN /\ schedules' = (schedules \ {s}) \cup
                               {[s EXCEPT !.lifted_by_membership = member_id,
                                          !.lifted_by_external = NULL]}
                         /\ response' = [op |-> "assign_lifter", status |-> 200]
                    ELSE /\ response' = [op |-> "assign_lifter", status |-> 404]
                         /\ UNCHANGED schedules
               ELSE IF member_type = "external"
               THEN IF \E e \in externals : e.member_id = member_id /\ e.chit = s.chit
                    THEN /\ schedules' = (schedules \ {s}) \cup
                               {[s EXCEPT !.lifted_by_external = member_id,
                                          !.lifted_by_membership = NULL]}
                         /\ response' = [op |-> "assign_lifter", status |-> 200]
                    ELSE /\ response' = [op |-> "assign_lifter", status |-> 404]
                         /\ UNCHANGED schedules
               ELSE /\ response' = [op |-> "assign_lifter", status |-> 400]
                    /\ UNCHANGED schedules

\* ChitScheduleUpdateSerializer.validate on the fields of the request
UpdateMonthValid(lifted_by_membership, lifted_by_external) ==
    ~(lifted_by_membership \notin {ABSENT, NULL} /\ lifted_by_external \notin {ABSENT, NULL})

\* PATCH /schedules/{id}/update-month/ (partial): a lifter field names any
\* existing Membership / ExternalMember row, or null; only the fields given
\* are written.
UpdateMonth(user, pk, no_lift_amount, lifted_by_membership, lifted_by_external) ==
    /\ UNCHANGED <<chits, memberships, externals, payments, seq, workers, accounts>>
    /\ IF ~OwnedSchedule(pk, user)
       THEN /\ response' = [op |-> "update_month", status |-> 404]
            /\ UNCHANGED schedules
       ELSE IF \/ /\ lifted_by_membership \notin {ABSENT, NULL}
                  /\ ~\E m \in memberships : m.membership_id = lifted_by_membership
               \/ /\ lifted_by_external \notin {ABSENT, NULL}
                  /\ ~\E e \in externals : e.member_id = lifted_by_external
               \/ ~UpdateMonthValid(lifted_by_membership, lifted_by_external)
       THEN /\ response' = [op |-> "update_month", status |-> 400]
            /\ UNCHANGED schedules
       ELSE LET s == ScheduleById(pk)
                put(old, new) == IF new = ABSENT THEN old ELSE new
            IN /\ schedules' = (schedules \ {s}) \cup
                     {[s EXCEPT !.no_lift_amount = put(@, no_lift_amount),
                                !.lifted_by_membership = put(@, lifted_by_membership),
                                !.lifted_by_external = put(@, lifted_by_external)]}
               /\ response' = [op |-> "update_month", status |-> 200]

\* check_if_member_can_lift with the two lifter columns exchanged
check_if_member_can_lift_KindsSwapped(chit_id, member_id, member_type) ==
    LET already_lifted ==
            IF member_type = "verified"
            THEN \E s \in schedules : s.chit = chit_id /\ s.lifted_by_external = member_id
            ELSE \E s \in schedules : s.chit = chit_id /\ s.lifted_by_membership = member_id
    IN IF already_lifted
       THEN <<FALSE, "Member has already lifted in this chit">>
       ELSE <<TRUE, "Eligible to lift">>

\* check_if_member_can_lift(chit, member_id, member_type)
check_if_member_can_lift(chit_id, member_id, member_type) ==
    LET already_lifted ==
            IF member_type = "verified"
            THEN \E s \in schedules : s.chit = chit_id /\ s.lifted_by_membership = member_id
            ELSE \E s \in schedules : s.chit = chit_id /\ s.lifted_by_external = member_id
    IN IF already_lifted
       THEN <<FALSE, "Member has already lifted in this chit">>
       ELSE <<TRUE, "Eligible to lift">>

\* GET /dashboard/chit/{chit_id}/check-eligibility/?member_id=&member_type=
CheckLiftEligibility(user, chit_id, member_id, member_type) ==
    /\ UNCHANGED <<chits, memberships, externals, schedules, payments, seq, workers, accounts>>
    /\ IF ~OwnedChit(chit_id, user)
       THEN response' = [op |-> "check_eligibility", status |-> 404]
       ELSE response' = [op |-> "check_eligibility", status |-> 200,
                         chit |-> chit_id, member_id |-> member_id,
                         member_type |-> member_type,
                         can_lift |-> check_if_member_can_lift(chit_id, member_id, member_type)[1],
                         reason |-> check_if_member_can_lift(chit_id, member_id, member_type)[2]]

\* ------------------------------------------------- payment expectations
RECURSIVE Ascending(_)
\* the ids of a queryset in primary-key order
Ascending(ids) ==
    IF ids = {} THEN <<>>
    ELSE LET lo == CHOOSE i \in ids : \A j \in ids : i <= j
         IN <<lo>> \o Ascending(ids \ {lo})

MembershipById(id) == CHOOSE m \in memberships : m.membership_id = id

\* the amount with a verified member compared against the external lifter id
MembershipAmount_AnyKindLifter(chit, schedule, membership) ==
    IF membership.membership_id = schedule.lifted_by_membership
       \/ membership.membership_id = schedule.lifted_by_external
    THEN -(chit.total_amount - schedule.lift_amount)
    ELSE schedule.no_lift_amount * membership.slot_count

\* the amount of a verified member's expected payment
MembershipAmount(chit, schedule, membership) ==
    IF membership.membership_id = schedule.lifted_by_membership
    THEN -(chit.total_amount - schedule.lift_amount)
    ELSE schedule.no_lift_amount * membership.slot_count

\* the amount of an external member's expected payment
ExternalAmount(chit, schedule, external) ==
    IF external.member_id = schedule.lifted_by_external
    THEN -(chit.total_amount - schedule.lift_amount)
    ELSE schedule.no_lift_amount * external.slot_count

\* Payment.membership is a ForeignKey without null=True: the column is NOT NULL
PaymentInsertable(row) == row.membership # NULL

\* the lookup-or-insert written as update_or_create: a found row takes the defaults
GetOrCreate_UpdateOrCreate(run, membership_id, external_id, schedule, amount) ==
    LET found == {p \in run.payments :
                    /\ membership_id # NULL => p.membership = membership_id
                    /\ external_id # NULL => p.external_member = external_id
                    /\ p.chit_schedule = schedule.id
                    /\ p.month_number = schedule.month_number}
        row == [payment_id |-> run.next, membership |-> membership_id,
                external_member |-> external_id, chit_schedule |-> schedule.id,
                month_number |-> schedule.month_number, amount_paid |-> amount,
                status |-> "pending"]
    IN IF Cardinality(found) > 1 THEN [run EXCEPT !.raised = TRUE]
       ELSE IF Cardinality(found) = 1
       THEN [run EXCEPT !.payments =
                (@ \ found) \cup {[p EXCEPT !.amount_paid = amount,
                                             !.status = "pending"] : p \in found}]
       ELSE IF ~PaymentInsertable(row) THEN [run EXCEPT !.raised = TRUE]
       ELSE [run EXCEPT !.payments = @ \cup {row},
                        !.next = @ + 1,
                        !.created = Append(@, row.payment_id)]

\* Payment.objects.get_or_create(<member>, chit_schedule, month_number, defaults)
\* on the run so far: run.raised is set when it raises (MultipleObjectsReturned
\* from the lookup, IntegrityError from the insert).
GetOrCreate(run, membership_id, external_id, schedule, amount) ==
    LET found == {p \in run.payments :
                    /\ membership_id # NULL => p.membership = membership_id
                    /\ external_id # NULL => p.external_member = external_id
                    /\ p.chit_schedule = schedule.id
                    /\ p.month_number = schedule.month_number}
        row == [payment_id |-> run.next, membership |-> membership_id,
                external_member |-> external_id, chit_schedule |-> schedule.id,
                month_number |-> schedule.month_number, amount_paid |-> amount,
                status |-> "pending"]
    IN IF Cardinality(found) > 1 THEN [run EXCEPT !.raised = TRUE]
       ELSE IF Cardinality(found) = 1 THEN run
       ELSE IF ~PaymentInsertable(row) THEN [run EXCEPT !.raised = TRUE]
       ELSE [run EXCEPT !.payments = @ \cup {row},
                        !.next = @ + 1,
                        !.created = Append(@, row.payment_id)]

RECURSIVE ForMemberships(_, _, _, _)
\* the loop over the chit's Memberships; an exception ends the run
ForMemberships(ids, chit, schedule, run) ==
    IF ids = <<>> \/ run.raised THEN run
    ELSE LET m == MembershipById(Head(ids))
         IN ForMemberships(Tail(ids), chit, schedule,
                GetOrCreate(run, m.membership_id, NULL, schedule,
                            MembershipAmount(chit, schedule, m)))

RECURSIVE ForExternals(_, _, _, _)
\* the loop over the chit's ExternalMembers
ForExternals(ids, chit, schedule, run) ==
    IF ids = <<>> \/ run.raised THEN run
    ELSE LET e == ExternalById(Head(ids))
         IN ForExternals(Tail(ids), chit, schedule,
                GetOrCreate(run, NULL, e.member_id, schedule,
                            ExternalAmount(chit, schedule, e)))

\* generate_payment_expectations(chit_schedule): the rows it leaves in the
\* table (it runs in no transaction of its own), the ids it created, and
\* whether it raised instead of returning
generate_payment_expectations(schedule) ==
    LET chit == ChitById(schedule.chit)
        start == [payments |-> payments, next |-> seq.payment,
                  created |-> <<>>, raised |-> FALSE]
        verified == ForMemberships(
                        Ascending({m.membership_id : m \in MembershipsOf(chit.chit_id)}),
                        chit, schedule, start)
    IN ForExternals(Ascending({e.member_id : e \in ExternalsOf(chit.chit_id)}),
                    chit, schedule, verified)

\* a call of generate_payment_expectations on an existing schedule
Generate(pk) ==
    /\ \E s \in schedules : s.id = pk
    /\ LET run == generate_payment_expectations(ScheduleById(pk))
       IN /\ payments' = run.payments
          /\ seq' = [seq EXCEPT !.payment = run.next]
          /\ response' = [op |-> "generate", status |-> 200, schedule |-> pk,
                          created |-> run.created, raised |-> run.raised]
    /\ UNCHANGED <<chits, memberships, externals, schedules, workers, accounts>>

\* --------------------------------------------------------- authentication
\* An idToken as firebase_auth.verify_id_token treats it: left out of the
\* request, rejected with InvalidIdTokenError, failing with another exception,
\* or decoded to the phone number it certifies.
MissingToken == [kind |-> "missing"]
InvalidToken == [kind |-> "invalid"]
UnverifiableToken == [kind |-> "unverifiable"]
ValidToken(phone_number) == [kind |-> "valid", phone_number |-> phone_number]

\* authenticate(request, phone_number=..., password=...): the users it returns
authenticate(phone_number, password) ==
    {a \in accounts : /\ a.phone_number = phone_number
                      /\ check_password(password, a.password)}

\* POST /signin/
Signin(phone_number, password) ==
    /\ UNCHANGED <<chits, memberships, externals, schedules, payments, seq, workers, accounts>>
    /\ IF authenticate(phone_number, password) = {}
       THEN response' = [op |-> "signin", status |-> 401]
       ELSE response' = [op |-> "signin", status |-> 200,
                         user_id |-> (CHOOSE a \in authenticate(phone_number, password)
                                         : TRUE).user_id]

\* POST /firebase-signup/ : the account is created for the phone number of
\* the token; a field left out or empty ("") is refused
FirebaseSignup(id_token, password) ==
    /\ UNCHANGED <<chits, memberships, externals, schedules, payments, seq, workers>>
    /\ IF id_token = MissingToken \/ password = ""
       THEN /\ response' = [op |-> "signup", status |-> 400]
            /\ UNCHANGED accounts
       ELSE IF id_token = InvalidToken
       THEN /\ response' = [op |-> "signup", status |-> 401]
            /\ UNCHANGED accounts
       ELSE IF id_token = UnverifiableToken
       THEN /\ response' = [op |-> "signup", status |-> 500]
            /\ UNCHANGED accounts
       ELSE IF id_token.phone_number = NULL
               \/ \E a \in accounts : a.phone_number = id_token.phone_number
       THEN /\ response' = [op |-> "signup", status |-> 400]
            /\ UNCHANGED accounts
       ELSE LET id == 1 + Cardinality(accounts)
            IN /\ accounts' = accounts \cup
                     {[user_id |-> id, phone_number |-> id_token.phone_number,
                       password |-> make_password(password)]}
               /\ response' = [op |-> "signup", status |-> 201, user_id |-> id,
                               phone_number |-> id_token.phone_number]

\* POST /firebase-password-reset/
FirebasePasswordReset(id_token, phone_number, new_password) ==
    /\ UNCHANGED <<chits, memberships, externals, schedules, payments, seq, workers>>
    /\ IF id_token = MissingToken \/ phone_number = ABSENT \/ new_password = ""
       THEN /\ response' = [op |-> "password_reset", status |-> 400]
            /\ UNCHANGED accounts
       ELSE IF id_token = InvalidToken
       THEN /\ response' = [op |-> "password_reset", status |-> 401]
            /\ UNCHANGED accounts
       ELSE IF id_token = UnverifiableToken
       THEN /\ response' = [op |-> "password_reset", status |-> 500]
            /\ UNCHANGED accounts
       ELSE IF id_token.phone_number # phone_number
       THEN /\ response' = [op |-> "password_reset", status |-> 400]
            /\ UNCHANGED accounts
       ELSE IF ~\E a \in accounts : a.phone_number = phone_number
       THEN /\ response' = [op |-> "password_reset", status |-> 404]
            /\ UNCHANGED accounts
       ELSE /\ accounts' = {IF a.phone_number = phone_number
                            THEN [a EXCEPT !.password = make_password(new_password)]
                            ELSE a : a \in accounts}
            /\ response' = [op |-> "password_reset", status |-> 200]

\* ------------------------------------------------------ payment handlers
\* Payment.STATUS_CHOICES
PaymentStatuses == {"pending", "paid", "late"}

\* the member test accepting a payment that names both kinds of member
PaymentCreateValid_EitherOrBoth(membership, external_member) ==
    ~(membership = NULL /\ external_member = NULL)

\* PaymentCreateSerializer.validate
PaymentCreateValid(membership, external_member) ==
    /\ ~(membership # NULL /\ external_member # NULL)
    /\ ~(membership = NULL /\ external_member = NULL)

\* POST /payments/ : any authenticated user; the primary keys must exist and
\* the status must be a choice; nothing relates the member, the schedule and
\* the month to each other or to rows already stored.  An insert the database
\* refuses raises inside transaction.atomic (500, nothing written).
PaymentCreate(user, membership, external_member, chit_schedule, month_number, amount_paid, status) ==
    /\ seq.payment <= MaxPayments
    /\ UNCHANGED <<chits, memberships, externals, schedules, workers, accounts>>
    /\ IF \/ membership # NULL /\ ~\E m \in memberships : m.membership_id = membership
          \/ external_member # NULL /\ ~\E e \in externals : e.member_id = external_member
          \/ ~\E s \in schedules : s.id = chit_schedule
          \/ status \notin PaymentStatuses
          \/ ~PaymentCreateValid(membership, external_member)
       THEN /\ response' = [op |-> "payment_create", status |-> 400]
            /\ UNCHANGED <<payments, seq>>
       ELSE LET row == [payment_id |-> seq.payment, membership |-> membership,
                        external_member |-> external_member,
                        chit_schedule |-> chit_schedule, month_number |-> month_number,
                        amount_paid |-> amount_paid, status |-> status]
            IN IF ~PaymentInsertable(row)
               THEN /\ response' = [op |-> "payment_create", status |-> 500]
                    /\ UNCHANGED <<payments, seq>>
               ELSE /\ payments' = payments \cup {row}
                    /\ seq' = [seq EXCEPT !.payment = @ + 1]
                    /\ response' = [op |-> "payment_create", status |-> 201,
                                    payment |-> row.payment_id]

\* get_object_or_404(Payment, pk=pk, chit_schedule__chit__organizer=user)
OwnedPayment(pk, user) ==
    \E q \in payments : q.payment_id = pk /\ OwnedSchedule(q.chit_schedule, user)

\* the handler saving whatever status the request carries
PaymentUpdateStatus_AnyStatus(user, pk, status) ==
    /\ UNCHANGED <<chits, memberships, externals, schedules, seq, workers, accounts>>
    /\ IF ~OwnedPayment(pk, user)
       THEN /\ response' = [op |-> "payment_status", status |-> 404]
            /\ UNCHANGED payments
       ELSE LET q == CHOOSE x \in payments : x.payment_id = pk
            IN /\ payments' = (payments \ {q}) \cup {[q EXCEPT !.status = status]}
               /\ response' = [op |-> "payment_status", status |-> 200, payment |-> pk]

\* the handler refusing to reopen a paid payment
PaymentUpdateStatus_PaidIsFinal(user, pk, status) ==
    /\ UNCHANGED <<chits, memberships, externals, schedules, seq, workers, accounts>>
    /\ IF ~OwnedPayment(pk, user)
       THEN /\ response' = [op |-> "payment_status", status |-> 404]
            /\ UNCHANGED payments
       ELSE IF \/ status \notin {"paid", "pending", "late"}
               \/ (CHOOSE x \in payments : x.payment_id = pk).status = "paid"
       THEN /\ response' = [op |-> "payment_status", status |-> 400]
            /\ UNCHANGED payments
       ELSE LET q == CHOOSE x \in payments : x.payment_id = pk
            IN /\ payments' = (payments \ {q}) \cup {[q EXCEPT !.status = status]}
               /\ response' = [op |-> "payment_status", status |-> 200, payment |-> pk]

\* PATCH /payments/{id}/update-status/
PaymentUpdateStatus(user, pk, status) ==
    /\ UNCHANGED <<chits, memberships, externals, schedules, seq, workers, accounts>>
    /\ IF ~OwnedPayment(pk, user)
       THEN /\ response' = [op |-> "payment_status", status |-> 404]
            /\ UNCHANGED payments
       ELSE IF status \notin {"paid", "pending", "late"}
       THEN /\ response' = [op |-> "payment_status", status |-> 400]
            /\ UNCHANGED payments
       ELSE LET q == CHOOSE x \in payments : x.payment_id = pk
            IN /\ payments' = (payments \ {q}) \cup {[q EXCEPT !.status = status]}
               /\ response' = [op |-> "payment_status", status |-> 200, payment |-> pk]

RECURSIVE BulkUpdates(_, _, _)
\* the loop of BulkPaymentUpdateView.post over the updates list: an update
\* without payment_id or status, with a status outside the three, or naming a
\* payment that is not of the chit is reported as an error and skipped
BulkUpdates(updates, chit_id, run) ==
    IF updates = <<>> THEN run
    ELSE LET update == Head(updates)
             target == {q \in run.payments :
                          /\ q.payment_id = update.payment_id
                          /\ \E s \in schedules : s.id = q.chit_schedule /\ s.chit = chit_id}
         IN BulkUpdates(Tail(updates), chit_id,
               IF \/ update.payment_id = NULL
                  \/ update.status = ""
                  \/ update.status \notin {"paid", "pending", "late"}
                  \/ target = {}
               THEN [run EXCEPT !.errors = @ + 1]
               ELSE [run EXCEPT
                       !.payments = (@ \ target)
                                    \cup {[q EXCEPT !.status = update.status] : q \in target},
                       !.updated = Append(@, update.payment_id)])

\* POST /dashboard/chit/{chit_id}/bulk-payment-update/
BulkPaymentUpdate(user, chit_id, updates) ==
    /\ UNCHANGED <<chits, memberships, externals, schedules, seq, workers, accounts>>
    /\ IF ~OwnedChit(chit_id, user)
       THEN /\ response' = [op |-> "bulk_update", status |-> 404]
            /\ UNCHANGED payments
       ELSE IF updates = <<>>
       THEN /\ response' = [op |-> "bulk_update", status |-> 400]
            /\ UNCHANGED payments
       ELSE LET run == BulkUpdates(updates, chit_id,
                          [payments |-> payments, updated |-> <<>>, errors |-> 0])
            IN /\ payments' = run.payments
               /\ response' = [op |-> "bulk_update", status |-> 200,
                               updated |-> run.updated, errors |-> run.errors]

\* ---------------------------------------------------------------- reports
\* Python's None where the other answer is a dict
None == [none |-> TRUE]

\* the summary with every paid row collected, payouts included
calculate_payment_summary_PayoutsCollected(chit_id, month_number) ==
    LET found == {s \in schedules : s.chit = chit_id /\ s.month_number = month_number}
    IN IF found = {} THEN None
       ELSE LET schedule == CHOOSE s \in found : \A t \in found : s.id <= t.id
                chit == ChitById(chit_id)
                rows == {q \in payments : q.chit_schedule = schedule.id}
                total_expected == schedule.no_lift_amount * (chit.total_slots - 1)
                total_collected == SumOver({q \in rows : q.status = "paid"}, "amount_paid")
            IN [month_number |-> month_number,
                lift_amount |-> schedule.lift_amount,
                no_lift_amount |-> schedule.no_lift_amount,
                total_expected |-> total_expected,
                total_collected |-> total_collected,
                balance |-> total_expected - total_collected,
                paid_count |-> Cardinality({q \in rows : q.status = "paid"}),
                pending_count |-> Cardinality({q \in rows : q.status = "pending"}),
                late_count |-> Cardinality({q \in rows : q.status = "late"}),
                lifter |-> IF schedule.lifted_by_membership # NULL THEN "verified"
                           ELSE IF schedule.lifted_by_external # NULL THEN "external"
                           ELSE "none"]

\* calculate_payment_summary(chit, month_number); the amounts it renders with
\* str() are kept as the numbers they print
calculate_payment_summary(chit_id, month_number) ==
    LET found == {s \in schedules : s.chit = chit_id /\ s.month_number = month_number}
    IN IF found = {} THEN None
       ELSE LET schedule == CHOOSE s \in found : \A t \in found : s.id <= t.id
                chit == ChitById(chit_id)
                rows == {q \in payments : q.chit_schedule = schedule.id}
                total_expected == schedule.no_lift_amount * (chit.total_slots - 1)
                total_collected ==
                    SumOver({q \in rows : q.status = "paid" /\ q.amount_paid > 0},
                            "amount_paid")
            IN [month_number |-> month_number,
                lift_amount |-> schedule.lift_amount,
                no_lift_amount |-> schedule.no_lift_amount,
                total_expected |-> total_expected,
                total_collected |-> total_collected,
                balance |-> total_expected - total_collected,
                paid_count |-> Cardinality({q \in rows : q.status = "paid"}),
                pending_count |-> Cardinality({q \in rows : q.status = "pending"}),
                late_count |-> Cardinality({q \in rows : q.status = "late"}),
                lifter |-> IF schedule.lifted_by_membership # NULL THEN "verified"
                           ELSE IF schedule.lifted_by_external # NULL THEN "external"
                           ELSE "none"]

\* a call of calculate_payment_summary on an existing chit
PaymentSummary(chit_id, month_number) ==
    /\ chit_id \in ChitIds
    /\ response' = [op |-> "payment_summary", status |-> 200, chit |-> chit_id,
                    month_number |-> month_number,
                    result |-> calculate_payment_summary(chit_id, month_number)]
    /\ UNCHANGED <<chits, memberships, externals, schedules, payments, seq, workers, accounts>>

\* an issue of validate_chit_completion: the count and the text after it
Issue(count, text) == IF count > 0 THEN <<[count |-> count, text |-> text]>> ELSE <<>>

\* the validation with late payments taken as settled
validate_chit_completion_LateSettled(chit_id) ==
    LET mine == SchedulesOf(chit_id)
        unassigned_months ==
            Cardinality({s \in mine : s.lifted_by_membership = NULL
                                      /\ s.lifted_by_external = NULL})
        pending_payments ==
            Cardinality({q \in payments : /\ \E s \in mine : s.id = q.chit_schedule
                                          /\ q.status \in {"pending"}})
        schedules_without_payments ==
            Cardinality({s \in mine : ~\E q \in payments : q.chit_schedule = s.id})
        issues == Issue(unassigned_months, "month(s) don't have lifters assigned")
                  \o Issue(pending_payments, "payment(s) are still pending or late")
                  \o Issue(schedules_without_payments, "month(s) have no payment records")
    IN <<Len(issues) = 0, issues>>

\* validate_chit_completion(chit): <<is_valid, issues>>
validate_chit_completion(chit_id) ==
    LET mine == SchedulesOf(chit_id)
        unassigned_months ==
            Cardinality({s \in mine : s.lifted_by_membership = NULL
                                      /\ s.lifted_by_external = NULL})
        pending_payments ==
            Cardinality({q \in payments : /\ \E s \in mine : s.id = q.chit_schedule
                                          /\ q.status \in {"pending", "late"}})
        schedules_without_payments ==
            Cardinality({s \in mine : ~\E q \in payments : q.chit_schedule = s.id})
        issues == Issue(unassigned_months, "month(s) don't have lifters assigned")
                  \o Issue(pending_payments, "payment(s) are still pending or late")
                  \o Issue(schedules_without_payments, "month(s) have no payment records")
    IN <<Len(issues) = 0, issues>>

\* GET /dashboard/chit/{chit_id}/validate/
ValidateCompletion(user, chit_id) ==
    /\ UNCHANGED <<chits, memberships, externals, schedules, payments, seq, workers, accounts>>
    /\ IF ~OwnedChit(chit_id, user)
       THEN response' = [op |-> "validate", status |-> 404]
       ELSE response' = [op |-> "validate", status |-> 200, chit |-> chit_id,
                         is_valid |-> validate_chit_completion(chit_id)[1],
                         issues |-> validate_chit_completion(chit_id)[2]]

\* ------------------------------------------------------ month calculator
\* A date is <<year, month, day>>, as datetime.date holds it.
IsLeap(year) == (year % 4 = 0 /\ year % 100 # 0) \/ year % 400 = 0

DaysInMonth(year, month) ==
    IF month = 2 THEN (IF IsLeap(year) THEN 29 ELSE 28)
    ELSE IF month \in {4, 6, 9, 11} THEN 30 ELSE 31

IsDate(d) == d[2] \in 1..12 /\ d[3] \in 1..DaysInMonth(d[1], d[2])

\* date.__lt__: year, then month, then day
DateBefore(a, b) ==
    \/ a[1] < b[1]
    \/ a[1] = b[1] /\ a[2] < b[2]
    \/ a[1] = b[1] /\ a[2] = b[2] /\ a[3] < b[3]

\* the month number without the "chit completed" test
calculate_current_month_NeverCompleted(start_date, duration_months, today) ==
    IF DateBefore(today, start_date) THEN NULL
    ELSE (today[1] - start_date[1]) * 12 + (today[2] - start_date[2]) + 1

\* the month number counted in whole months since the start day
calculate_current_month_WholeMonths(start_date, duration_months, today) ==
    IF DateBefore(today, start_date) THEN NULL
    ELSE LET months_elapsed == (today[1] - start_date[1]) * 12
                               + (today[2] - start_date[2]) + 1
                               - (IF today[3] < start_date[3] THEN 1 ELSE 0)
         IN IF months_elapsed > duration_months THEN NULL ELSE months_elapsed

\* calculate_current_month(chit) evaluated on the date today, for a chit with
\* the given start_date and duration_months; None is NULL
calculate_current_month(start_date, duration_months, today) ==
    IF DateBefore(today, start_date) THEN NULL
    ELSE LET months_elapsed == (today[1] - start_date[1]) * 12
                               + (today[2] - start_date[2]) + 1
         IN IF months_elapsed > duration_months THEN NULL ELSE months_elapsed

\* a call of calculate_current_month
CurrentMonth(start_date, duration_months, today) ==
    /\ response' = [op |-> "current_month", status |-> 200,
                    start_date |-> start_date, duration_months |-> duration_months,
                    today |-> today,
                    result |-> calculate_current_month(start_date, duration_months, today)]
    /\ UNCHANGED <<chits, memberships, externals, schedules, payments, seq, workers, accounts>>

\* ------------------------------------------------------- specifications
\* external_members_data lists a request may carry
ExtLists == {<<>>} \cup {<<a>> : a \in SlotCounts}
\* ids a request may name: every row that can exist
ExternalPks == 1..MaxExternals
MembershipPks == 1..MaxMemberships

\* Slot accounting: the handlers that change total_slots or a slot_count,
\* one request at a time, on the first chit created.
SlotsChitPks == {1}

NextSlots ==
    \/ \E u \in Users, ts \in SlotCounts, ta \in TotalAmounts, la \in LiftAmounts,
          ext \in ExtLists :
          seq.chit \in SlotsChitPks /\ ChitCreate(u, ts, ta, la, 1, ext)
    \/ \E u \in Users, pk \in SlotsChitPks, ts \in SlotCounts \cup {ABSENT},
          has_ext \in BOOLEAN :
          ChitUpdate(u, pk, ts, ABSENT, ABSENT, ABSENT, has_ext, <<>>)
    \/ \E u \in Users, pk \in SlotsChitPks, k \in SlotCounts :
          AddExternalMember(u, pk, k)
    \/ \E pk \in SlotsChitPks, mu \in Users, k \in SlotCounts :
          AddVerifiedMember(pk, mu, k)
    \/ \E u \in Users, pk \in ExternalPks, c \in SlotsChitPks \cup {ABSENT},
          k \in SlotCounts \cup {ABSENT} :
          ExternalMemberUpdate(u, pk, c, k)
    \/ \E u \in Users, pk \in ExternalPks :
          ExternalMemberDelete(u, pk)
    \/ \E pk \in SlotsChitPks :
          GetAvailableSlots(pk)

Spec == Init /\ [][NextSlots]_vars

\* Concurrent add-external-member requests: each worker's read and insert are
\* separate steps that interleave with the other workers' steps.
NextRace ==
    \/ \E u \in Users, ts \in SlotCounts, ta \in TotalAmounts, la \in LiftAmounts,
          ext \in ExtLists :
          seq.chit \in SlotsChitPks /\ ChitCreate(u, ts, ta, la, 1, ext)
    \/ \E w \in Workers, u \in Users, pk \in SlotsChitPks, k \in SlotCounts :
          AddExternalRead(w, u, pk, k)
    \/ \E w \in Workers :
          AddExternalInsert(w)

SpecRace == Init /\ [][NextRace]_vars

\* Lifter assignment on one chit whose external members are listed at
\* creation; every member holds one slot.
LiftExtLists == {[i \in 1..MaxExternals |-> 1]}
LiftTotalSlots == {MaxExternals + MaxMemberships}
LiftDurations == {2}
LiftSchedulePks == {1, 2}
Organizers == {1}

NextLift ==
    \/ \E u \in Organizers, ts \in LiftTotalSlots, ta \in TotalAmounts, la \in LiftAmounts,
          d \in LiftDurations, ext \in LiftExtLists :
          seq.chit \in SlotsChitPks /\ ChitCreate(u, ts, ta, la, d, ext)
    \/ \E pk \in SlotsChitPks, mu \in Users :
          AddVerifiedMember(pk, mu, 1)
    \/ \E u \in Users, pk \in LiftSchedulePks, t \in MemberTypes,
          id \in ExternalPks \cup MembershipPks :
          AssignLifter(u, pk, t, id)
    \/ \E u \in Users, pk \in LiftSchedulePks,
          lbm \in {ABSENT, NULL} \cup MembershipPks,
          lbe \in {ABSENT, NULL} \cup ExternalPks :
          UpdateMonth(u, pk, ABSENT, lbm, lbe)
    \/ \E u \in Users, pk \in SlotsChitPks, t \in MemberTypes,
          id \in ExternalPks \cup MembershipPks :
          CheckLiftEligibility(u, pk, id, t)

SpecLift == Init /\ [][NextLift]_vars

\* Payment expectations on one chit: members join, lifters are assigned,
\* expectations are generated month by month.
PayExtLists == {<<>>, <<1>>}
PayTotalSlots == {1 + MaxSlots * MaxMemberships}
PayDurations == {2}
PaySchedulePks == {1, 2}

NextPay ==
    \/ \E u \in Organizers, ts \in PayTotalSlots, ta \in TotalAmounts, la \in LiftAmounts,
          d \in PayDurations, ext \in PayExtLists :
          seq.chit \in SlotsChitPks /\ ChitCreate(u, ts, ta, la, d, ext)
    \/ \E pk \in SlotsChitPks, mu \in Users, k \in SlotCounts :
          AddVerifiedMember(pk, mu, k)
    \/ \E u \in Organizers, pk \in PaySchedulePks, t \in {"verified", "external"},
          id \in ExternalPks \cup MembershipPks :
          AssignLifter(u, pk, t, id)
    \/ \E pk \in PaySchedulePks :
          Generate(pk)

SpecPay == Init /\ [][NextPay]_vars

\* Regeneration: one schedule whose lifter and no_lift_amount are changed
\* between runs of generate_payment_expectations.
RegenSchedulePks == {1}

NextRegen ==
    \/ \E u \in Organizers, ts \in PayTotalSlots, ta \in TotalAmounts, la \in LiftAmounts,
          ext \in PayExtLists :
          seq.chit \in SlotsChitPks /\ ChitCreate(u, ts, ta, la, 1, ext)
    \/ \E pk \in SlotsChitPks, mu \in Users, k \in SlotCounts :
          AddVerifiedMember(pk, mu, k)
    \/ \E u \in Organizers, pk \in RegenSchedulePks, t \in {"verified", "external"},
          id \in ExternalPks \cup MembershipPks :
          AssignLifter(u, pk, t, id)
    \/ \E u \in Organizers, pk \in RegenSchedulePks, nl \in NoLiftAmounts :
          UpdateMonth(u, pk, nl, ABSENT, ABSENT)
    \/ \E pk \in RegenSchedulePks :
          Generate(pk)

SpecRegen == Init /\ [][NextRegen]_vars

\* Reports on one chit with one schedule: expectations are generated, the
\* organizer marks payments, the summary and the validation are read.
PaymentPks == 1..MaxPayments
ReportMonths == {1, 2}

NextReport ==
    \/ \E u \in Organizers, ts \in PayTotalSlots, ta \in TotalAmounts, la \in LiftAmounts,
          ext \in PayExtLists :
          seq.chit \in SlotsChitPks /\ ChitCreate(u, ts, ta, la, 1, ext)
    \/ \E pk \in SlotsChitPks, mu \in Users, k \in SlotCounts :
          AddVerifiedMember(pk, mu, k)
    \/ \E u \in Organizers, pk \in RegenSchedulePks, t \in {"verified", "external"},
          id \in ExternalPks \cup MembershipPks :
          AssignLifter(u, pk, t, id)
    \/ \E pk \in RegenSchedulePks :
          Generate(pk)
    \/ \E u \in Users, pk \in PaymentPks, st \in PaymentStatuses \cup {"void"} :
          PaymentUpdateStatus(u, pk, st)
    \/ \E pk \in SlotsChitPks, month \in ReportMonths :
          PaymentSummary(pk, month)
    \/ \E u \in Users, pk \in SlotsChitPks :
          ValidateCompletion(u, pk)

SpecReport == Init /\ [][NextReport]_vars

\* Recording payments: POST /payments/ requests interleaved with runs of
\* generate_payment_expectations on one schedule.
PostStatuses == {"paid"}

NextPost ==
    \/ \E u \in Organizers, ts \in PayTotalSlots, ta \in TotalAmounts, la \in LiftAmounts,
          ext \in PayExtLists :
          seq.chit \in SlotsChitPks /\ ChitCreate(u, ts, ta, la, 1, ext)
    \/ \E pk \in SlotsChitPks, mu \in Users :
          AddVerifiedMember(pk, mu, 1)
    \/ \E pk \in RegenSchedulePks :
          Generate(pk)
    \/ \E u \in Users, m \in {NULL} \cup MembershipPks, e \in {NULL} \cup ExternalPks,
          cs \in RegenSchedulePks, month \in ReportMonths, a \in NoLiftAmounts,
          st \in PostStatuses :
          PaymentCreate(u, m, e, cs, month, a, st)

SpecPost == Init /\ [][NextPost]_vars

\* The life of one chit: creation (which may fail at any insert) and PUT
\* requests that change total_slots or duration_months.
ChitDurations == {1, 2}
PutDurations == {ABSENT, 1, 2, 3}

NextChit ==
    \/ \E u \in Users, ts \in SlotCounts, ta \in TotalAmounts, la \in LiftAmounts,
          d \in ChitDurations, ext \in ExtLists :
          seq.chit \in SlotsChitPks /\ ChitCreate(u, ts, ta, la, d, ext)
    \/ \E u \in Users, ts \in SlotCounts, ta \in TotalAmounts, la \in LiftAmounts,
          d \in ChitDurations, ext \in ExtLists :
          \E f \in 1..(1 + Len(ext) + d), burn \in BOOLEAN :
             seq.chit \in SlotsChitPks /\ ChitCreateRaises(u, ts, ta, la, d, ext, f, burn)
    \/ \E u \in Users, pk \in SlotsChitPks, ts \in SlotCounts \cup {ABSENT},
          d \in PutDurations :
          ChitUpdate(u, pk, ts, ABSENT, ABSENT, d, FALSE, <<>>)

SpecChit == Init /\ [][NextChit]_vars

\* Accounts: sign-in, signup and password reset requests from anybody.
PhoneNumbers == {1, 2, 3, 4}
Passwords == {"first", "second"}
IdTokens == {MissingToken, InvalidToken, UnverifiableToken, ValidToken(NULL)}
               \cup {ValidToken(p) : p \in PhoneNumbers}

NextAuth ==
    \/ \E ph \in PhoneNumbers, pw \in Passwords :
          Signin(ph, pw)
    \/ \E t \in IdTokens, pw \in Passwords \cup {""} :
          FirebaseSignup(t, pw)
    \/ \E t \in IdTokens, ph \in PhoneNumbers \cup {ABSENT}, pw \in Passwords \cup {""} :
          FirebasePasswordReset(t, ph, pw)

SpecAuth == Init /\ [][NextAuth]_vars

\* Ownership: one chit, created by either user, and every mutating request
\* issued by either user.
OwnerTotalSlots == {3}
OwnerExtLists == {<<1>>}

\* the mutating requests of user u
OwnerRequest(u) ==
    \/ \E pk \in SlotsChitPks, ts \in OwnerTotalSlots, d \in {ABSENT, 2} :
          ChitUpdate(u, pk, ts, ABSENT, ABSENT, d, FALSE, <<>>)
    \/ \E pk \in SlotsChitPks :
          ChitDelete(u, pk)
    \/ \E pk \in SlotsChitPks :
          AddExternalMember(u, pk, 1)
    \/ \E pk \in RegenSchedulePks, nl \in NoLiftAmounts :
          UpdateMonth(u, pk, nl, ABSENT, ABSENT)
    \/ \E pk \in RegenSchedulePks, t \in {"verified", "external"}, id \in {1} :
          AssignLifter(u, pk, t, id)
    \/ \E m \in {1}, cs \in RegenSchedulePks, a \in NoLiftAmounts, st \in PostStatuses :
          PaymentCreate(u, m, NULL, cs, 1, a, st)
    \/ \E pk \in {1}, st \in {"paid", "pending"} :
          PaymentUpdateStatus(u, pk, st)
    \/ \E pk \in ExternalPks, k \in {ABSENT, 2} :
          ExternalMemberUpdate(u, pk, ABSENT, k)
    \/ \E pk \in ExternalPks :
          ExternalMemberDelete(u, pk)

NextOwner ==
    \/ \E u \in Users, ts \in OwnerTotalSlots, ta \in TotalAmounts, la \in LiftAmounts,
          ext \in OwnerExtLists :
          seq.chit \in SlotsChitPks /\ ChitCreate(u, ts, ta, la, 1, ext)
    \/ \E pk \in SlotsChitPks, mu \in Organizers :
          AddVerifiedMember(pk, mu, 1)
    \/ \E u \in Users :
          OwnerRequest(u)

SpecOwner == Init /\ [][NextOwner]_vars

\* Deletion: two chits of one organizer, each with one external member and
\* one schedule; lifters are set through update-month together with the
\* month's no_lift_amount, payments are recorded, members and chits are deleted.
CascadeChitPks == {1, 2}
CascadeSchedulePks == {1, 2}
CascadeMemberPks == {1, 2}

NextCascade ==
    \/ \E u \in Organizers, ts \in OwnerTotalSlots, ta \in TotalAmounts, la \in LiftAmounts,
          ext \in OwnerExtLists :
          seq.chit \in CascadeChitPks /\ ChitCreate(u, ts, ta, la, 1, ext)
    \/ \E pk \in CascadeChitPks, mu \in Organizers :
          AddVerifiedMember(pk, mu, 1)
    \/ \E u \in Organizers, pk \in CascadeSchedulePks, nl \in NoLiftAmounts,
          id \in CascadeMemberPks :
          UpdateMonth(u, pk, nl, id, ABSENT)
    \/ \E u \in Organizers, pk \in CascadeSchedulePks, nl \in NoLiftAmounts,
          id \in CascadeMemberPks :
          UpdateMonth(u, pk, nl, ABSENT, id)
    \/ \E u \in Organizers, m \in {1}, cs \in CascadeSchedulePks,
          a \in NoLiftAmounts, st \in PostStatuses :
          PaymentCreate(u, m, NULL, cs, 1, a, st)
    \/ \E u \in Organizers, pk \in CascadeMemberPks :
          ExternalMemberDelete(u, pk)
    \/ \E u \in Organizers, pk \in CascadeChitPks :
          ChitDelete(u, pk)

SpecCascade == Init /\ [][NextCascade]_vars

\* Payment statuses: payments are generated or recorded as paid, then marked
\* one by one or in bulk; requests also carry a status outside the choices.
BadStatuses == {"void"}
BulkLists ==
    {<<>>} \cup {<<[payment_id |-> pk, status |-> st]>>
                    : pk \in {NULL, 1}, st \in {"late", "void", ""}}
           \cup {<<[payment_id |-> 1, status |-> "void"], [payment_id |-> 2, status |-> "late"]>>}

NextStatus ==
    \/ \E u \in Organizers, ts \in PayTotalSlots, ta \in TotalAmounts, la \in LiftAmounts,
          ext \in {<<>>} :
          seq.chit \in SlotsChitPks /\ ChitCreate(u, ts, ta, la, 1, ext)
    \/ \E pk \in SlotsChitPks, mu \in Organizers :
          AddVerifiedMember(pk, mu, 1)
    \/ \E pk \in RegenSchedulePks :
          Generate(pk)
    \/ \E u \in Users, m \in MembershipPks, cs \in RegenSchedulePks, a \in NoLiftAmounts,
          st \in PostStatuses \cup BadStatuses :
          PaymentCreate(u, m, NULL, cs, 1, a, st)
    \/ \E u \in Users, pk \in PaymentPks, st \in PaymentStatuses \cup BadStatuses :
          PaymentUpdateStatus(u, pk, st)
    \/ \E u \in Users, pk \in SlotsChitPks, updates \in BulkLists :
          BulkPaymentUpdate(u, pk, updates)

SpecStatus == Init /\ [][NextStatus]_vars

\* The month calculator on its own: a chit's start_date and duration_months
\* and the evaluation date are drawn from the calendar of three years.
\* the first day, a middle day and the last day of a month
MonthDays == {1, 15, 28, 29, 30, 31}
CalendarDates(years, months) ==
    {d \in years \X months \X MonthDays :
        IsDate(d) /\ d[3] \in {1, 15, DaysInMonth(d[1], d[2])}}
MonthDurations == {1, 2, 12}
StartDates == CalendarDates({2025}, {1, 2, 12})
TodayDates == CalendarDates({2025, 2026}, 1..12)

NextMonth ==
    \E s \in StartDates, d \in MonthDurations, t \in TodayDates :
        CurrentMonth(s, d, t)

SpecMonth == Init /\ [][NextMonth]_vars

\* ------------------------------------------------------------ properties
RECURSIVE WeightedCount(_, _)
\* sum of slot_count over rows, counted value by value
WeightedCount(rows, k) ==
    IF k <= 0 THEN 0
    ELSE k * Cardinality({r \in rows : r.slot_count = k}) + WeightedCount(rows, k - 1)

LargestSlotCount(rows) ==
    IF rows = {} THEN 0
    ELSE CHOOSE k \in {r.slot_count : r \in rows} : \A r \in rows : r.slot_count <= k

\* slots held in a chit by its Memberships and ExternalMembers
SlotsHeld(chit_id) ==
    WeightedCount(MembershipsOf(chit_id), LargestSlotCount(MembershipsOf(chit_id)))
      + WeightedCount(ExternalsOf(chit_id), LargestSlotCount(ExternalsOf(chit_id)))

\* C1: in every reachable state every chit's Memberships and ExternalMembers
\* together hold at most total_slots slots.
C1_SlotsWithinCapacity ==
    \A c \in chits : SlotsHeld(c.chit_id) <= c.total_slots

\* C2: an add-external-member request by the organizer on a chit where the
\* slots held plus the requested slot_count exceed total_slots is answered
\* 400 and leaves the chit's Memberships and ExternalMembers as they were.
C2_OverCapacityAddRejected ==
    [][\A u \in Users, pk \in SlotsChitPks, k \in SlotCounts :
          (/\ AddExternalMember(u, pk, k)
           /\ OwnedChit(pk, u)
           /\ SlotsHeld(pk) + k > ChitById(pk).total_slots)
          => (/\ response'.status = 400
              /\ externals' = externals
              /\ memberships' = memberships)]_vars

\* C2 witness: a request that asked for more than what was left was rejected
\* on a chit that has members.
C2_Witness ==
    /\ response.op = "add_external"
    /\ response.status = 400
    /\ ExternalsOf(response.chit) # {}
    /\ SlotsHeld(response.chit) <= ChitById(response.chit).total_slots
    /\ SlotsHeld(response.chit) + response.slot_count > ChitById(response.chit).total_slots

\* C3: two add-external-member requests on the same chit never both succeed
\* when together they take the chit past total_slots.
C3_NoConcurrentOvershoot ==
    \A w1, w2 \in Workers :
        (/\ w1 # w2
         /\ workers[w1].pc = "done" /\ workers[w1].status = 201
         /\ workers[w2].pc = "done" /\ workers[w2].status = 201
         /\ workers[w1].chit = workers[w2].chit)
        => SlotsHeld(workers[w1].chit) <= ChitById(workers[w1].chit).total_slots

\* C4: get_available_slots returns used_slots equal to the slots held by the
\* chit's Memberships and ExternalMembers, and used_slots + available_slots
\* equal to total_slots.
C4_AvailableSlots ==
    response.op = "available_slots" =>
        /\ response.used_slots = SlotsHeld(response.chit)
        /\ response.used_slots + response.available_slots
              = ChitById(response.chit).total_slots

\* C4 witness: the call was made on a chit holding both kinds of member.
C4_Witness ==
    /\ response.op = "available_slots"
    /\ MembershipsOf(response.chit) # {}
    /\ ExternalsOf(response.chit) # {}
    /\ response.available_slots = 0

\* C5: no Membership and no ExternalMember is recorded as lifter on more than
\* one ChitSchedule of the same chit.
C5_LifterOnOneSchedule ==
    \A s1, s2 \in schedules :
        (s1 # s2 /\ s1.chit = s2.chit) =>
            /\ s1.lifted_by_membership # NULL
                  => s1.lifted_by_membership # s2.lifted_by_membership
            /\ s1.lifted_by_external # NULL
                  => s1.lifted_by_external # s2.lifted_by_external

\* C6: no ChitSchedule has lifted_by_membership and lifted_by_external both
\* non-null.
C6_AtMostOneLifter ==
    \A s \in schedules :
        ~(s.lifted_by_membership # NULL /\ s.lifted_by_external # NULL)

\* a schedule of the chit records the member (same id, same kind) as lifter
RecordedAsLifter(chit_id, member_id, member_type) ==
    {s \in SchedulesOf(chit_id) :
        \/ member_type = "verified" /\ s.lifted_by_membership = member_id
        \/ member_type = "external" /\ s.lifted_by_external = member_id} # {}

\* C7: check_if_member_can_lift answers can_lift = TRUE exactly when no
\* schedule of the chit records a lifter of the same id and kind, gives a
\* non-empty reason with FALSE, and reports every recorded lifter ineligible
\* (so for every other schedule of the chit as well).
C7_EligibilityIffNotLifter ==
    /\ (response.op = "check_eligibility" /\ response.status = 200
          /\ response.member_type \in {"verified", "external"}) =>
            /\ response.can_lift
                  <=> ~RecordedAsLifter(response.chit, response.member_id,
                                        response.member_type)
            /\ ~response.can_lift => response.reason # ""
    /\ \A s \in schedules :
            /\ s.lifted_by_membership # NULL =>
                  ~check_if_member_can_lift(s.chit, s.lifted_by_membership, "verified")[1]
            /\ s.lifted_by_external # NULL =>
                  ~check_if_member_can_lift(s.chit, s.lifted_by_external, "external")[1]

\* C7 witness: a verified member who is lifter on one schedule was reported
\* ineligible while an external member with the same id is no lifter and
\* another schedule of the chit is still unassigned.
C7_Witness ==
    /\ response.op = "check_eligibility"
    /\ response.status = 200
    /\ response.member_type = "verified"
    /\ ~response.can_lift
    /\ \E e \in ExternalsOf(response.chit) : e.member_id = response.member_id
    /\ ~RecordedAsLifter(response.chit, response.member_id, "external")
    /\ \E s \in SchedulesOf(response.chit) :
          s.lifted_by_membership = NULL /\ s.lifted_by_external = NULL

PaymentById(id) == CHOOSE p \in payments : p.payment_id = id

\* the members of a chit that have a Payment row for the schedule
PaidUp(s) ==
    /\ \A m \in MembershipsOf(s.chit) :
          \E p \in payments : p.chit_schedule = s.id /\ p.membership = m.membership_id
    /\ \A e \in ExternalsOf(s.chit) :
          \E p \in payments : p.chit_schedule = s.id /\ p.external_member = e.member_id

\* C8: a run of generate_payment_expectations that directly follows a run on
\* the same schedule leaves the Payment rows as they are and returns an empty
\* list.
C8_GenerateIdempotent ==
    [][\A pk \in PaySchedulePks :
          (response.op = "generate" /\ response.schedule = pk /\ Generate(pk))
          => (/\ payments' = payments
              /\ ~response'.raised
              /\ response'.created = <<>>)]_vars

\* C9: after generate_payment_expectations has run on a schedule, every
\* Membership and every ExternalMember of its chit has a Payment row for it.
C9_EveryMemberHasPayment ==
    response.op = "generate" => PaidUp(ScheduleById(response.schedule))

\* C10: every row a run created is pending; it carries
\* -(total_amount - lift_amount) when its member is the schedule's lifter of
\* the same kind, and no_lift_amount * slot_count otherwise.
C10_CreatedAmounts ==
    response.op = "generate" =>
        \A i \in 1..Len(response.created) :
            LET p == PaymentById(response.created[i])
                s == ScheduleById(response.schedule)
                c == ChitById(s.chit)
                owed(is_lifter, slot_count) ==
                    IF is_lifter THEN 0 - (c.total_amount - s.lift_amount)
                    ELSE s.no_lift_amount * slot_count
            IN /\ p.status = "pending"
               /\ p.chit_schedule = s.id
               /\ p.membership # NULL =>
                     p.amount_paid = owed(s.lifted_by_membership = p.membership,
                                          MembershipById(p.membership).slot_count)
               /\ (p.membership = NULL /\ p.external_member # NULL) =>
                     p.amount_paid = owed(s.lifted_by_external = p.external_member,
                                          ExternalById(p.external_member).slot_count)

\* C10 witness: one run created the lifter's payout and another member's
\* contribution for more than one slot, while the schedule of an earlier run
\* had as lifter the external member whose id equals a verified member's.
C10_Witness ==
    /\ response.op = "generate"
    /\ Len(response.created) = 2
    /\ \E i, j \in 1..Len(response.created) :
          /\ PaymentById(response.created[i]).amount_paid < 0
          /\ PaymentById(response.created[j]).amount_paid > 0
          /\ MembershipById(PaymentById(response.created[j]).membership).slot_count > 1
    /\ \E s \in schedules, p \in payments :
          /\ s.lifted_by_external = p.membership
          /\ p.chit_schedule = s.id
          /\ p.amount_paid > 0

\* start_date + duration_months: the same day of the month n months later,
\* or the last day of that month when it is shorter
AddMonths(date, n) ==
    LET total == (date[2] - 1) + n
        year == date[1] + (total \div 12)
        month == (total % 12) + 1
        last == DaysInMonth(year, month)
    IN <<year, month, IF date[3] < last THEN date[3] ELSE last>>

\* C12 as stated: None before start_date, None after start_date +
\* duration_months, and a month number in 1..duration_months on every date
\* from start_date up to start_date + duration_months.
C12_ActiveUpToEndDate ==
    response.op = "current_month" =>
        LET s == response.start_date
            d == response.duration_months
            t == response.today
            end == AddMonths(s, d)
        IN /\ DateBefore(t, s) => response.result = NULL
           /\ DateBefore(end, t) => response.result = NULL
           /\ (~DateBefore(t, s) /\ ~DateBefore(end, t)) => response.result \in 1..d

\* C12 amended: None before start_date and None from the first day of the
\* calendar month that lies duration_months months after start_date's month
\* (so also on the dates of that month up to start_date + duration_months);
\* a month number in 1..duration_months on every date in between.
C12_ActiveCalendarMonths ==
    response.op = "current_month" =>
        LET s == response.start_date
            d == response.duration_months
            t == response.today
            end == AddMonths(s, d)
            closing == <<end[1], end[2], 1>>
        IN /\ DateBefore(t, s) => response.result = NULL
           /\ DateBefore(end, t) => response.result = NULL
           /\ ~DateBefore(t, closing) => response.result = NULL
           /\ (~DateBefore(t, s) /\ DateBefore(t, closing)) => response.result \in 1..d

\* an evaluation inside the closing month, not after start_date + duration_months
C12_Witness ==
    /\ response.op = "current_month"
    /\ LET end == AddMonths(response.start_date, response.duration_months)
       IN /\ ~DateBefore(response.today, <<end[1], end[2], 1>>)
          /\ DateBefore(response.today, end)
    /\ response.result = NULL

\* C13: a returned month number is (today.year - start.year) * 12 +
\* (today.month - start.month) + 1 whatever the days of the month are; a chit
\* started on the last day of a month is in month 2 on the first day of the
\* next month; the number never decreases as the evaluation date advances.
C13_CalendarMonthNumber ==
    (response.op = "current_month" /\ response.result # NULL) =>
        LET s == response.start_date
            d == response.duration_months
            t == response.today
            r == response.result
        IN /\ r = (t[1] - s[1]) * 12 + (t[2] - s[2]) + 1
           /\ \A t2 \in TodayDates :
                 (t2[1] = t[1] /\ t2[2] = t[2] /\ ~DateBefore(t2, s))
                     => calculate_current_month(s, d, t2) = r
           /\ \A s2 \in StartDates :
                 (s2[1] = s[1] /\ s2[2] = s[2] /\ ~DateBefore(t, s2))
                     => calculate_current_month(s2, d, t) = r
           /\ (s[3] = DaysInMonth(s[1], s[2]) /\ t = AddMonths(<<s[1], s[2], 1>>, 1))
                 => r = 2
           /\ \A t2 \in TodayDates :
                 (~DateBefore(t2, t) /\ calculate_current_month(s, d, t2) # NULL)
                     => calculate_current_month(s, d, t2) >= r

\* a chit started on the last day of a month, evaluated the next morning
C13_Witness ==
    /\ response.op = "current_month"
    /\ response.start_date[3] = DaysInMonth(response.start_date[1], response.start_date[2])
    /\ response.today = AddMonths(<<response.start_date[1], response.start_date[2], 1>>, 1)
    /\ response.result = 2

\* C11: a run of generate_payment_expectations leaves every Payment row that
\* existed before it exactly as it was (amount_paid and status included),
\* also when the schedule's lifter or no_lift_amount changed since the row
\* was written.
C11_GenerateKeepsExistingRows ==
    [][\A pk \in RegenSchedulePks :
          Generate(pk) => \A p \in payments : p \in payments']_vars

\* after a run, a row of an earlier run still holds an amount that is no
\* longer the one the schedule asks of its member
C11_Witness ==
    /\ response.op = "generate"
    /\ \E p \in payments :
          /\ p.chit_schedule = response.schedule
          /\ \A i \in 1..Len(response.created) : response.created[i] # p.payment_id
          /\ LET s == ScheduleById(p.chit_schedule)
             IN p.amount_paid # MembershipAmount(ChitById(s.chit), s,
                                                 MembershipById(p.membership))

RECURSIVE CountedSum(_, _)
\* the sum of amount_paid over rows, taken amount by amount
CountedSum(amounts, rows) ==
    IF amounts = {} THEN 0
    ELSE LET a == CHOOSE x \in amounts : TRUE
         IN a * Cardinality({q \in rows : q.amount_paid = a})
            + CountedSum(amounts \ {a}, rows)

\* C14: the summary of a month that has a schedule reports total_expected =
\* no_lift_amount * (total_slots - 1), total_collected = the sum of
\* amount_paid over the schedule's payments that are paid and positive, and
\* balance = total_expected - total_collected; a month without a schedule
\* gives None.
C14_SummaryTotals ==
    response.op = "payment_summary" =>
        LET found == {s \in schedules : s.chit = response.chit
                                        /\ s.month_number = response.month_number}
        IN IF found = {} THEN response.result = None
           ELSE \E s \in found :
                 LET counted == {q \in payments : /\ q.chit_schedule = s.id
                                                  /\ q.status = "paid"
                                                  /\ q.amount_paid > 0}
                     r == response.result
                 IN /\ r # None
                    /\ r.total_expected
                          = s.no_lift_amount * (ChitById(response.chit).total_slots - 1)
                    /\ r.total_collected
                          = CountedSum({q.amount_paid : q \in counted}, counted)
                    /\ r.balance = r.total_expected - r.total_collected

\* a summary over a paid contribution, a paid payout and an unpaid row
C14_Witness ==
    /\ response.op = "payment_summary"
    /\ response.result # None
    /\ response.result.total_collected > 0
    /\ \E s \in schedules :
          /\ s.chit = response.chit /\ s.month_number = response.month_number
          /\ \E q \in payments : /\ q.chit_schedule = s.id
                                 /\ q.status = "paid" /\ q.amount_paid < 0

\* C15: is_valid is True with no issues exactly when every schedule of the
\* chit has a lifter, no payment of the chit is pending or late, and every
\* schedule has a payment; otherwise issues holds one entry for each of the
\* three conditions that is violated.
C15_ValidationIssues ==
    (response.op = "validate" /\ response.status = 200) =>
        LET mine == SchedulesOf(response.chit)
            lifters == \A s \in mine : s.lifted_by_membership # NULL
                                       \/ s.lifted_by_external # NULL
            settled == \A q \in payments :
                          (\E s \in mine : s.id = q.chit_schedule)
                              => q.status \notin {"pending", "late"}
            recorded == \A s \in mine : \E q \in payments : q.chit_schedule = s.id
            violated == (IF lifters THEN 0 ELSE 1) + (IF settled THEN 0 ELSE 1)
                        + (IF recorded THEN 0 ELSE 1)
            texts == {response.issues[i].text : i \in 1..Len(response.issues)}
        IN /\ response.is_valid = (lifters /\ settled /\ recorded)
           /\ response.is_valid = (response.issues = <<>>)
           /\ Len(response.issues) = violated
           /\ Cardinality(texts) = violated
           /\ ("month(s) don't have lifters assigned" \in texts) = ~lifters
           /\ ("payment(s) are still pending or late" \in texts) = ~settled
           /\ ("month(s) have no payment records" \in texts) = ~recorded

\* a chit with schedules and payments that validates
C15_Witness ==
    /\ response.op = "validate"
    /\ response.status = 200
    /\ response.is_valid
    /\ SchedulesOf(response.chit) # {}
    /\ \E q \in payments : q.status = "paid"

\* C16: every Payment row has exactly one of membership and external_member
\* set, never both and never neither, whether POST /payments/ or
\* generate_payment_expectations wrote it.
C16_ExactlyOneMember ==
    \A q \in payments : (q.membership # NULL) # (q.external_member # NULL)

\* a row recorded through POST /payments/ next to a generated one
C16_Witness ==
    /\ \E q \in payments : q.status \in PostStatuses
    /\ \E q \in payments : q.status = "pending"

\* C17: after any interleaving of POST /payments/ requests and runs of
\* generate_payment_expectations there is at most one Payment row for a
\* member and a chit_schedule.
C17_OnePaymentPerMemberAndSchedule ==
    \A q1, q2 \in payments :
        (/\ q1.membership = q2.membership
         /\ q1.external_member = q2.external_member
         /\ q1.chit_schedule = q2.chit_schedule) => q1 = q2

\* C18: every chit has exactly one ChitSchedule for each month_number in
\* 1..duration_months and none outside that range, after creation and after
\* every PUT /chits/{id}/.
C18_OneSchedulePerMonth ==
    \A c \in chits :
        /\ \A month \in 1..c.duration_months :
              Cardinality({s \in SchedulesOf(c.chit_id) : s.month_number = month}) = 1
        /\ \A s \in SchedulesOf(c.chit_id) : s.month_number \in 1..c.duration_months

\* C19: POST /chits/ is all-or-nothing: a request that fails at any of its
\* inserts (or is refused) leaves no Chit, ExternalMember or ChitSchedule row
\* behind, and a request that succeeds leaves the chit, all its listed
\* external members and all its monthly schedules.
C19_ChitCreateAllOrNothing ==
    [][\A u \in Users, ts \in SlotCounts, ta \in TotalAmounts, la \in LiftAmounts,
          d \in ChitDurations, ext \in ExtLists :
          /\ (\E f \in 1..(1 + Len(ext) + d), burn \in BOOLEAN :
                 ChitCreateRaises(u, ts, ta, la, d, ext, f, burn))
                => UNCHANGED <<chits, externals, schedules>>
          /\ (ChitCreate(u, ts, ta, la, d, ext) /\ response'.status # 201)
                => UNCHANGED <<chits, externals, schedules>>
          /\ (ChitCreate(u, ts, ta, la, d, ext) /\ response'.status = 201)
                => /\ \E c \in chits' \ chits : c.chit_id = response'.chit
                   /\ \A e \in externals' \ externals : e.chit = response'.chit
                   /\ Cardinality(externals' \ externals) = Len(ext)
                   /\ \A s \in schedules' \ schedules : s.chit = response'.chit
                   /\ {s.month_number : s \in schedules' \ schedules} = 1..d
                   /\ Cardinality(schedules' \ schedules) = d]_vars

\* a creation that failed after some of its rows were written
C19_Witness ==
    /\ response.op = "chit_create"
    /\ response.status = 500
    /\ response.fail_at > 1
    /\ chits = {}

\* C20: a run of generate_payment_expectations is all-or-nothing: when it
\* raises while creating the Payment of some member, no row it created
\* earlier in the same run is left in the table.
C20_GenerateAllOrNothing ==
    [][\A pk \in PaySchedulePks :
          (Generate(pk) /\ response'.raised) => payments' = payments]_vars

\* C25: every authentication failure is answered 401 and changes no User:
\* a sign-in with bad credentials, a signup or a password reset with an
\* invalid identity token, and a password reset whose verified token carries
\* another phone number than the request.
C25_AuthFailuresUnauthorized ==
    [][/\ \A ph \in PhoneNumbers, pw \in Passwords :
             (Signin(ph, pw) /\ authenticate(ph, pw) = {})
                => (response'.status = 401 /\ accounts' = accounts)
       /\ \A pw \in Passwords :
             FirebaseSignup(InvalidToken, pw)
                => (response'.status = 401 /\ accounts' = accounts)
       /\ \A ph \in PhoneNumbers, pw \in Passwords :
             FirebasePasswordReset(InvalidToken, ph, pw)
                => (response'.status = 401 /\ accounts' = accounts)
       /\ \A tph \in PhoneNumbers, ph \in PhoneNumbers, pw \in Passwords :
             (tph # ph /\ FirebasePasswordReset(ValidToken(tph), ph, pw))
                => (response'.status = 401 /\ accounts' = accounts)]_vars

\* the Chit, ExternalMember, ChitSchedule and Payment rows of the chits that
\* user u does not organize
ForeignRows(u) ==
    LET foreign == {c.chit_id : c \in {x \in chits : x.organizer # u}}
    IN [chits |-> {c \in chits : c.chit_id \in foreign},
        externals |-> {e \in externals : e.chit \in foreign},
        schedules |-> {s \in schedules : s.chit \in foreign},
        payments |-> {q \in payments :
                        \E s \in schedules : s.id = q.chit_schedule /\ s.chit \in foreign}]

\* C21: a request of user u never creates, changes or deletes a Chit,
\* ExternalMember, ChitSchedule or Payment of a chit that u does not
\* organize, and is answered 403 or 404 when it addresses such a row (a
\* POST /payments/ with a malformed body may be refused with 400 first).
C21_NoWriteToForeignChit ==
    [][\A u \in Users :
          OwnerRequest(u) =>
             /\ ForeignRows(u)' = ForeignRows(u)
             /\ (/\ response'.op \in {"chit_update", "chit_delete", "add_external"}
                 /\ \E c \in chits : c.chit_id \in SlotsChitPks /\ c.organizer # u)
                   => response'.status \in {403, 404}
             /\ (/\ response'.op \in {"update_month", "assign_lifter"}
                 /\ \E s \in schedules : s.id \in RegenSchedulePks /\ ~OwnedChit(s.chit, u))
                   => response'.status \in {403, 404}
             /\ (/\ response'.op = "payment_create"
                 /\ response'.status # 400
                 /\ \E s \in schedules : s.id \in RegenSchedulePks /\ ~OwnedChit(s.chit, u))
                   => response'.status \in {403, 404}]_vars

\* C22: after an accepted DELETE /chits/{id}/ no Membership, ExternalMember,
\* ChitSchedule or Payment referencing that chit (directly, or through a
\* schedule or a member) remains, and the rows of the other chits are as
\* they were.
C22_ChitDeleteCascades ==
    [][\A u \in Organizers, pk \in CascadeChitPks :
          (ChitDelete(u, pk) /\ response'.status = 204) =>
             /\ ~\E c \in chits' : c.chit_id = pk
             /\ ~\E m \in memberships' : m.chit = pk
             /\ ~\E e \in externals' : e.chit = pk
             /\ ~\E s \in schedules' : s.chit = pk
             /\ \A q \in payments' :
                   /\ \E s \in schedules' : s.id = q.chit_schedule
                   /\ \E m \in memberships' : m.membership_id = q.membership
             /\ {c \in chits : c.chit_id # pk} = chits'
             /\ {m \in memberships : m.chit # pk} = memberships'
             /\ {e \in externals : e.chit # pk} = externals'
             /\ {s \in schedules : s.chit # pk} = schedules'
             /\ {q \in payments : \E s \in schedules : s.id = q.chit_schedule /\ s.chit # pk}
                   = payments']_vars

\* the lifter of every schedule exists
LifterExists ==
    \A s \in schedules :
        /\ s.lifted_by_membership # NULL
              => \E m \in memberships : m.membership_id = s.lifted_by_membership
        /\ s.lifted_by_external # NULL
              => \E e \in externals : e.member_id = s.lifted_by_external

\* C23: when a member recorded as lifter is deleted (an external member by
\* DELETE /external-members/{id}/, a membership with its chit), every schedule
\* outside the deleted chit survives with the same month_number, lift_amount
\* and no_lift_amount and with exactly the references to deleted members set
\* to null; no schedule ever references a member that does not exist.
C23_LifterSetNull ==
    [][/\ LifterExists'
       /\ \A u \in Organizers, pk \in CascadeMemberPks :
             (ExternalMemberDelete(u, pk) /\ response'.status = 204) =>
                /\ Cardinality(schedules') = Cardinality(schedules)
                /\ \A s \in schedules : \E t \in schedules' :
                      /\ t.id = s.id /\ t.chit = s.chit
                      /\ t.month_number = s.month_number
                      /\ t.lift_amount = s.lift_amount
                      /\ t.no_lift_amount = s.no_lift_amount
                      /\ t.lifted_by_membership = s.lifted_by_membership
                      /\ t.lifted_by_external
                            = (IF s.lifted_by_external = pk THEN NULL
                               ELSE s.lifted_by_external)
       /\ \A u \in Organizers, pk \in CascadeChitPks :
             (ChitDelete(u, pk) /\ response'.status = 204) =>
                \A s \in schedules : s.chit # pk => \E t \in schedules' :
                      /\ t.id = s.id /\ t.chit = s.chit
                      /\ t.month_number = s.month_number
                      /\ t.lift_amount = s.lift_amount
                      /\ t.no_lift_amount = s.no_lift_amount
                      /\ t.lifted_by_membership
                            = (IF \E m \in memberships :
                                     m.membership_id = s.lifted_by_membership /\ m.chit = pk
                               THEN NULL ELSE s.lifted_by_membership)
                      /\ t.lifted_by_external
                            = (IF \E e \in externals :
                                     e.member_id = s.lifted_by_external /\ e.chit = pk
                               THEN NULL ELSE s.lifted_by_external)]_vars

\* an external member was deleted and a schedule whose lifter had been set
\* (together with its no_lift_amount) has no lifter; no chit was deleted
C23_Witness ==
    /\ response.op = "external_delete"
    /\ response.status = 204
    /\ Cardinality(chits) = seq.chit - 1
    /\ \E s \in schedules :
          /\ s.no_lift_amount \in NoLiftAmounts
          /\ s.lifted_by_membership = NULL
          /\ s.lifted_by_external = NULL

\* C24: every Payment's status is pending, paid or late in every reachable
\* state; an update-status request on one's own payment and a POST /payments/
\* request that carry another status are answered 400, and neither changes a
\* Payment row.
C24_StatusWithinChoices ==
    [][/\ \A q \in payments' : q.status \in {"pending", "paid", "late"}
       /\ \A u \in Users, pk \in PaymentPks, st \in BadStatuses :
             PaymentUpdateStatus(u, pk, st) =>
                /\ payments' = payments
                /\ OwnedPayment(pk, u) => response'.status = 400
       /\ \A u \in Users, m \in MembershipPks, cs \in RegenSchedulePks,
             a \in NoLiftAmounts, st \in BadStatuses :
             PaymentCreate(u, m, NULL, cs, 1, a, st) =>
                (payments' = payments /\ response'.status = 400)]_vars

\* a request with a status outside the choices was refused while payments of
\* all three statuses are stored
C24_Witness ==
    /\ response.op \in {"payment_status", "payment_create"}
    /\ response.status = 400
    /\ \A st \in PaymentStatuses : \E q \in payments : q.status = st

\* C30: an update-status request on one's own payment with a status among
\* pending, paid, late is accepted whatever the current status is, sets the
\* status of that payment to the requested value and leaves its amount_paid,
\* member, schedule and month, and every other Payment, unchanged.
C30_UpdateStatusFrame ==
    [][\A u \in Users, pk \in PaymentPks, st \in PaymentStatuses :
          (PaymentUpdateStatus(u, pk, st) /\ OwnedPayment(pk, u)) =>
             /\ response'.status = 200
             /\ Cardinality(payments') = Cardinality(payments)
             /\ \A q \in payments : \E t \in payments' :
                   /\ t.payment_id = q.payment_id
                   /\ t.membership = q.membership
                   /\ t.external_member = q.external_member
                   /\ t.chit_schedule = q.chit_schedule
                   /\ t.month_number = q.month_number
                   /\ t.amount_paid = q.amount_paid
                   /\ t.status = (IF q.payment_id = pk THEN st ELSE q.status)]_vars

\* a payment recorded as paid is pending again after an accepted request
C30_Witness ==
    /\ response.op = "payment_status"
    /\ response.status = 200
    /\ \E q \in payments :
          /\ q.payment_id = response.payment
          /\ q.amount_paid \in NoLiftAmounts
          /\ q.status = "pending"

\* C26: an assign-lifter request changes nothing but the two lifter references
\* of the targeted ChitSchedule: every Payment row, also one generated with the
\* previous lifter's payout, every other schedule and the other fields of the
\* targeted schedule stay as they were.
C26_AssignLifterFrame ==
    [][\A u \in Organizers, pk \in RegenSchedulePks, t \in {"verified", "external"},
          id \in ExternalPks \cup MembershipPks :
          AssignLifter(u, pk, t, id) =>
             /\ payments' = payments
             /\ chits' = chits /\ memberships' = memberships /\ externals' = externals
             /\ {s \in schedules' : s.id # pk} = {s \in schedules : s.id # pk}
             /\ \A s \in schedules : s.id = pk =>
                   \E n \in schedules' :
                      n = [s EXCEPT !.lifted_by_membership = n.lifted_by_membership,
                                    !.lifted_by_external = n.lifted_by_external]]_vars

\* a lifter was assigned while the payout row of the previous lifter is stored
C26_Witness ==
    /\ response.op = "assign_lifter"
    /\ response.status = 200
    /\ \E q \in payments :
          /\ q.amount_paid < 0
          /\ \E s \in schedules :
                /\ s.id = q.chit_schedule
                /\ s.lifted_by_membership # q.membership

\* C27: in every reachable state the Membership or ExternalMember recorded as
\* lifter of a ChitSchedule is a member of the schedule's own chit.
C27_LifterOfSameChit ==
    \A s \in schedules :
       /\ s.lifted_by_membership # NULL =>
             \E m \in memberships : m.membership_id = s.lifted_by_membership /\ m.chit = s.chit
       /\ s.lifted_by_external # NULL =>
             \E e \in externals : e.member_id = s.lifted_by_external /\ e.chit = s.chit

\* C28: in every reachable state the member of every Payment is a member of
\* the chit of the Payment's chit_schedule, and the Payment's month_number is
\* the month_number of that schedule.
C28_PaymentOfScheduleChitAndMonth ==
    \A q \in payments : \E s \in schedules :
       /\ s.id = q.chit_schedule
       /\ q.month_number = s.month_number
       /\ q.membership # NULL =>
             \E m \in memberships : m.membership_id = q.membership /\ m.chit = s.chit
       /\ q.external_member # NULL =>
             \E e \in externals : e.member_id = q.external_member /\ e.chit = s.chit

====
